---- MODULE Spec2Model ----
(***************************************************************************)
(* A model of the query pipeline of request_handler.py: one turn of        *)
(* handle_user_query, from schema discovery to the result envelope, with   *)
(* the collaborators (mysql_query, get_table_schema, get_all_tables_in_db, *)
(* the Watsonx gateway) as the environment.                                *)
(*                                                                         *)
(* Text is modelled at the level of characters: a Python str is a          *)
(* sequence of one-character strings, so that parsing, extraction and      *)
(* substitution are computed and not assumed.                              *)
(***************************************************************************)
EXTENDS Integers, Sequences, FiniteSets, TLC

\* ------------------------------------------------------------------ bounds

\* Longest column name (in the schema, or named in an error message).
MaxNameLen == 2
\* Longest column list the schema inspector returns.
MaxCols == 1
\* Longest free part of a generated SQL response.
MaxSqlLen == 2

\* ------------------------------------------------------------ text helpers

\* All sequences over S of length at most n.
SeqsUpTo(S, n) == UNION {[1..k -> S] : k \in 0..n}

UpperLetters ==
    <<"A", "B", "C", "D", "E", "F", "G", "H", "I", "J", "K", "L", "M",
      "N", "O", "P", "Q", "R", "S", "T", "U", "V", "W", "X", "Y", "Z">>

LowerLetters ==
    <<"a", "b", "c", "d", "e", "f", "g", "h", "i", "j", "k", "l", "m",
      "n", "o", "p", "q", "r", "s", "t", "u", "v", "w", "x", "y", "z">>

\* The lower case letter of each upper case letter.
LowerOf == [c \in {UpperLetters[i] : i \in 1..26} |->
               LowerLetters[CHOOSE i \in 1..26 : UpperLetters[i] = c]]

\* The case folding of re.IGNORECASE on the ASCII letters.
Lower(c) == IF c \in DOMAIN LowerOf THEN LowerOf[c] ELSE c

\* The characters str.strip() removes.
Whitespace == {" ", "\n", "\t", "\r"}

\* The backtick character, which a TLA+ string cannot hold: the one character
\* of the model that is written with a name.
Backtick == "BACKTICK"

\* The characters of the model in code point order (str comparison).
CharOrder ==
    <<"\t", "\n", "\r", " ", "\"", "'", ",", "7", ":">> \o UpperLetters
    \o <<"[", "]", "_", Backtick>> \o LowerLetters \o <<"{", "}">>

Ord(c) == CHOOSE i \in 1..Len(CharOrder) : CharOrder[i] = c

RECURSIVE StrLess(_, _)
\* x < y on Python strings.
StrLess(x, y) ==
    IF y = <<>> THEN FALSE
    ELSE IF x = <<>> THEN TRUE
    ELSE IF Head(x) = Head(y) THEN StrLess(Tail(x), Tail(y))
    ELSE Ord(Head(x)) < Ord(Head(y))

\* s[i:] with a 1-based i.
From(s, i) == SubSeq(s, i, Len(s))

\* pat occurs in s at position i (1-based), compared exactly.
MatchAt(s, i, pat) ==
    /\ i >= 1
    /\ i + Len(pat) - 1 <= Len(s)
    /\ \A k \in 1..Len(pat) : s[i + k - 1] = pat[k]

\* pat occurs in s at position i, compared under re.IGNORECASE.
MatchAtI(s, i, pat) ==
    /\ i >= 1
    /\ i + Len(pat) - 1 <= Len(s)
    /\ \A k \in 1..Len(pat) : Lower(s[i + k - 1]) = Lower(pat[k])

Contains(s, pat) == \E i \in 1..(Len(s) + 1) : MatchAt(s, i, pat)

Min(S) == CHOOSE x \in S : \A y \in S : x <= y

Max(S) == CHOOSE x \in S : \A y \in S : x >= y

\* str.strip()
Strip(s) ==
    LET keep == {i \in 1..Len(s) : s[i] \notin Whitespace}
    IN  IF keep = {} THEN <<>> ELSE SubSeq(s, Min(keep), Max(keep))

\* ------------------------------------------------------- Python values
\* None, a str, a number, a list and a dict, in one shape: t is the type and
\* v a sequence (the characters, the digits, the elements, the <<key, value>>
\* pairs in insertion order with unique keys).

None == [t |-> "none", v |-> <<>>]

Str(s) == [t |-> "str", v |-> s]

Num(digits) == [t |-> "num", v |-> digits]

List(elems) == [t |-> "list", v |-> elems]

Dict(pairs) == [t |-> "dict", v |-> pairs]

\* bool(x): None, "", [] and {} are false (no model number is zero).
Truthy(x) == x.t # "none" /\ (x.t = "num" \/ x.v # <<>>)

\* d.get(key) on a dict.
DictGet(d, key) ==
    IF \E i \in 1..Len(d.v) : d.v[i][1] = key
    THEN d.v[CHOOSE i \in 1..Len(d.v) : d.v[i][1] = key][2]
    ELSE None

\* d[key] = val on a dict: a present key keeps its place.
DictSet(d, key, val) ==
    IF \E i \in 1..Len(d.v) : d.v[i][1] = key
    THEN Dict([i \in 1..Len(d.v) |->
                 IF d.v[i][1] = key THEN <<key, val>> ELSE d.v[i]])
    ELSE Dict(Append(d.v, <<key, val>>))

\* x in lst on a Python list (a sequence of values).
InList(x, lst) == \E i \in 1..Len(lst) : lst[i] = x

\* ------------------------------------------------------------ literals

K_database == <<"d", "a", "t", "a", "b", "a", "s", "e">>

K_table == <<"t", "a", "b", "l", "e">>

K_column == <<"c", "o", "l", "u", "m", "n">>

\* The table name of this deployment (line 488).
S_Invoice_Data ==
    <<"I", "n", "v", "o", "i", "c", "e", "_", "D", "a", "t", "a">>

\* os.getenv("MYSQL_DATABASE"): the configured default database.
MYSQL_DATABASE == Str(<<"T", "a", "s", "k">>)

\* The fence pattern of lines 414 and 417 as the source holds it: six backticks.
FencePattern ==
    <<Backtick, Backtick, Backtick, Backtick, Backtick, Backtick>>

sql_keywords ==
    << <<"S", "E", "L", "E", "C", "T">>,
       <<"I", "N", "S", "E", "R", "T">>,
       <<"U", "P", "D", "A", "T", "E">>,
       <<"D", "E", "L", "E", "T", "E">>,
       <<"W", "I", "T", "H">>,
       <<"S", "H", "O", "W">>,
       <<"D", "E", "S", "C", "R", "I", "B", "E">>,
       <<"E", "X", "P", "L", "A", "I", "N">> >>

\* "Unknown column '" and "' in": the literal parts of the pattern of line 438.
UnknownColumnOpen ==
    <<"U", "n", "k", "n", "o", "w", "n", " ",
      "c", "o", "l", "u", "m", "n", " ", "'">>

UnknownColumnClose == <<"'", " ", "i", "n">>

P_AIGenerationFailed ==
    <<"A", "I", " ", "g", "e", "n", "e", "r", "a", "t", "i", "o", "n", " ",
      "f", "a", "i", "l", "e", "d", ":", " ">>

P_QueryExecutionError ==
    <<"Q", "u", "e", "r", "y", " ", "e", "x", "e", "c", "u", "t", "i", "o", "n",
      " ", "e", "r", "r", "o", "r", ":", " ">>

P_ExecutionFailedAfterFix ==
    <<"E", "x", "e", "c", "u", "t", "i", "o", "n", " ", "f", "a", "i", "l", "e",
      "d", " ", "a", "f", "t", "e", "r", " ", "f", "i", "x", ":", " ">>

\* --------------------------------------------- extract_sql_from_llm_response

\* re.findall of the fence pattern finds something.
HasCodeBlock(response_text) == Contains(response_text, FencePattern)

\* A slip: the keywords matched in upper case only (re.IGNORECASE left out).
KeywordStartsExactCase(response_text) ==
    {i \in 1..Len(response_text) :
        \E k \in 1..Len(sql_keywords) :
            MatchAt(response_text, i, sql_keywords[k])}

\* The positions where pattern.search can match: some keyword, any letter case.
KeywordStarts(response_text) ==
    {i \in 1..Len(response_text) :
        \E k \in 1..Len(sql_keywords) :
            MatchAtI(response_text, i, sql_keywords[k])}

extract_sql_from_llm_response(response_text) ==
    IF HasCodeBlock(response_text)
    THEN Strip(FencePattern)
    ELSE IF KeywordStarts(response_text) # {}
    THEN Strip(From(response_text, Min(KeywordStarts(response_text))))
    ELSE Strip(response_text)

\* --------------------------------------------- extract_column_from_sql_error

\* The ends of the group (.+?) of r"Unknown column '(.+?)' in" for a match
\* that starts at st: the group is at least one character, "." matches no
\* newline, and "' in" follows.
GroupEnds(error_msg, st) ==
    {en \in (st + Len(UnknownColumnOpen))..Len(error_msg) :
        /\ MatchAt(error_msg, en + 1, UnknownColumnClose)
        /\ \A k \in (st + Len(UnknownColumnOpen))..en : error_msg[k] # "\n"}

\* A slip: the marker "Unknown column" matched in any letter case.
UnknownColumnStartsAnyCase(error_msg) ==
    {st \in 1..Len(error_msg) :
        /\ MatchAtI(error_msg, st, UnknownColumnOpen)
        /\ GroupEnds(error_msg, st) # {}}

\* The positions where the pattern matches.
UnknownColumnStarts(error_msg) ==
    {st \in 1..Len(error_msg) :
        /\ MatchAt(error_msg, st, UnknownColumnOpen)
        /\ GroupEnds(error_msg, st) # {}}

\* matches[0] as a Python value: the leftmost match, its group the shortest.
extract_column_from_sql_error(error_msg) ==
    IF UnknownColumnStarts(error_msg) = {} THEN None
    ELSE LET st == Min(UnknownColumnStarts(error_msg))
         IN  Str(SubSeq(error_msg, st + Len(UnknownColumnOpen),
                        Min(GroupEnds(error_msg, st))))

\* ------------------------------------------------ difflib.get_close_matches
\* SequenceMatcher on strings shorter than 200 characters (no element is
\* junk or popular). Indices are Python's: 0-based, ranges half-open.

RECURSIVE CommonLen(_, _, _, _, _, _)
\* The length of the longest common run of a[i:ahi] and b[j:bhi] from their start.
CommonLen(a, b, i, ahi, j, bhi) ==
    IF i < ahi /\ j < bhi /\ a[i + 1] = b[j + 1]
    THEN 1 + CommonLen(a, b, i + 1, ahi, j + 1, bhi)
    ELSE 0

\* find_longest_match: the longest block, of those the one that starts earliest
\* in a, of those the one that starts earliest in b; <<alo, blo, 0>> if none.
find_longest_match(a, b, alo, ahi, blo, bhi) ==
    LET blocks == {<<i, j, CommonLen(a, b, i, ahi, j, bhi)>> :
                      i \in alo..(ahi - 1), j \in blo..(bhi - 1)}
        found  == {m \in blocks : m[3] > 0}
        best   == CHOOSE m \in found : \A o \in found :
                      \/ m[3] > o[3]
                      \/ m[3] = o[3] /\ m[1] < o[1]
                      \/ m[3] = o[3] /\ m[1] = o[1] /\ m[2] <= o[2]
    IN  IF found = {} THEN <<alo, blo, 0>> ELSE best

RECURSIVE MatchCount(_, _, _, _, _, _)
\* The sum of the sizes of get_matching_blocks over a[alo:ahi], b[blo:bhi].
MatchCount(a, b, alo, ahi, blo, bhi) ==
    LET m == find_longest_match(a, b, alo, ahi, blo, bhi)
    IN  IF m[3] = 0 THEN 0
        ELSE m[3]
             + MatchCount(a, b, alo, m[1], blo, m[2])
             + MatchCount(a, b, m[1] + m[3], ahi, m[2] + m[3], bhi)

\* The number of times c occurs in s.
CountOf(s, c) == Cardinality({i \in 1..Len(s) : s[i] = c})

\* The numerators of ratio(), quick_ratio() and real_quick_ratio(): each
\* ratio is 2.0 * matches / (len(a) + len(b)), and 1.0 for two empty strings.
RatioMatches(a, b) == MatchCount(a, b, 0, Len(a), 0, Len(b))

RECURSIVE SumOver(_, _, _)
\* The sum, over the characters c of the set cs, of min(count of c in a,
\* count of c in b): the matches quick_ratio() counts.
SumOver(cs, a, b) ==
    IF cs = {} THEN 0
    ELSE LET c == CHOOSE x \in cs : TRUE
             n == IF CountOf(a, c) < CountOf(b, c)
                  THEN CountOf(a, c) ELSE CountOf(b, c)
         IN  n + SumOver(cs \ {c}, a, b)

QuickRatioMatches(a, b) == SumOver({a[i] : i \in 1..Len(a)}, a, b)

RealQuickRatioMatches(a, b) == IF Len(a) < Len(b) THEN Len(a) ELSE Len(b)

\* The similarity cutoff of line 456, in tenths.
CutoffTenths == 6

\* A slip: a cutoff of 0.5.
ClearsCutoffLow(matches, length) ==
    IF length = 0 THEN TRUE ELSE 20 * matches >= 5 * length

\* 2.0 * matches / length >= 0.6, on integers (1.0 when length is 0).
ClearsCutoff(matches, length) ==
    IF length = 0 THEN 10 >= CutoffTenths
    ELSE 20 * matches >= CutoffTenths * length

\* x passes the three tests of get_close_matches against word: the
\* matcher's first sequence is the candidate x, its second the word.
IsCloseMatch(word, x) ==
    LET length == Len(x) + Len(word)
    IN  /\ ClearsCutoff(RealQuickRatioMatches(x, word), length)
        /\ ClearsCutoff(QuickRatioMatches(x, word), length)
        /\ ClearsCutoff(RatioMatches(x, word), length)

\* (score of x, x) < (score of y, y) as Python compares the tuples.
ScoredLess(word, x, y) ==
    LET mx == RatioMatches(x, word) * (Len(y) + Len(word))
        my == RatioMatches(y, word) * (Len(x) + Len(word))
    IN  IF Len(x) + Len(word) = 0 \/ Len(y) + Len(word) = 0
        THEN StrLess(x, y)
        ELSE mx < my \/ (mx = my /\ StrLess(x, y))

\* get_close_matches(word, possibilities, n=1, cutoff=0.6): the best of the
\* candidates that clear the cutoff, as a list of at most one name.
get_close_matches(word, possibilities) ==
    LET good == {possibilities[i] : i \in
                    {k \in 1..Len(possibilities) :
                        IsCloseMatch(word, possibilities[k])}}
    IN  IF good = {} THEN <<>>
        ELSE <<CHOOSE x \in good :
                  \A y \in good : y = x \/ ScoredLess(word, y, x)>>

\* ------------------------------------------------------ fix_sql_query_column

RECURSIVE ReSubFrom(_, _, _, _)
\* re.sub(re.escape(pat), repl, s, flags=re.IGNORECASE) from position i on:
\* every occurrence of pat, left to right and not overlapping, becomes repl.
ReSubFrom(s, i, pat, repl) ==
    IF i > Len(s) THEN <<>>
    ELSE IF MatchAtI(s, i, pat)
    THEN repl \o ReSubFrom(s, i + Len(pat), pat, repl)
    ELSE <<s[i]>> \o ReSubFrom(s, i + 1, pat, repl)

ReSub(pat, repl, s) == ReSubFrom(s, 1, pat, repl)

\* Lines 456-463 of fix_sql_query_column, given the unknown column and a
\* column list that is not empty: None, or the SQL with the column replaced.
FixWithColumns(sql, invalid_col, cols) ==
    LET matches == get_close_matches(invalid_col, cols)
    IN  IF matches = <<>> THEN None
        ELSE Str(ReSub(invalid_col, matches[1], sql))

\* fix_sql_query_column(sql, error_msg, db_name, table_name), with cols the
\* list get_table_schema returns (asked for only when the error names a column).
fix_sql_query_column(sql, msg, cols) ==
    LET invalid_col == extract_column_from_sql_error(msg)
    IN  IF ~Truthy(invalid_col) THEN None
        ELSE IF cols = <<>> THEN None
        ELSE FixWithColumns(sql, invalid_col.v, cols)

\* ------------------------------------------------------------- json.loads
\* The JSON of the model's characters: null, numbers written with the digit
\* 7, strings without escapes, arrays and objects. A parse result is
\* [ok, val, next]: next is the position after the value.

JsonFail == [ok |-> FALSE, val |-> None, next |-> 0]

\* The first position from i on that holds no JSON whitespace.
JsonSkip(s, i) ==
    Min({j \in i..(Len(s) + 1) : j > Len(s) \/ s[j] \notin Whitespace})

\* A string literal that opens at i: its closing quote is the next quote, and
\* a control character inside it is an error.
JsonString(s, i) ==
    LET closes == {j \in (i + 1)..Len(s) : s[j] = "\""}
        j      == Min(closes)
    IN  IF i > Len(s) \/ s[i] # "\"" \/ closes = {} THEN JsonFail
        ELSE IF \E k \in (i + 1)..(j - 1) : s[k] \in {"\n", "\t", "\r"}
        THEN JsonFail
        ELSE [ok |-> TRUE, val |-> Str(SubSeq(s, i + 1, j - 1)), next |-> j + 1]

\* A number that starts at i: the run of digits.
JsonNumber(s, i) ==
    LET j == Min({k \in i..(Len(s) + 1) : k > Len(s) \/ s[k] # "7"})
    IN  [ok |-> TRUE, val |-> Num(SubSeq(s, i, j - 1)), next |-> j]

RECURSIVE JsonValue(_, _), JsonElements(_, _, _), JsonMembers(_, _, _)

\* The value that starts at i (no whitespace before it).
JsonValue(s, i) ==
    IF i > Len(s) THEN JsonFail
    ELSE IF MatchAt(s, i, <<"n", "u", "l", "l">>)
    THEN [ok |-> TRUE, val |-> None, next |-> i + 4]
    ELSE IF s[i] = "7" THEN JsonNumber(s, i)
    ELSE IF s[i] = "\"" THEN JsonString(s, i)
    ELSE IF s[i] = "["
    THEN IF JsonSkip(s, i + 1) <= Len(s) /\ s[JsonSkip(s, i + 1)] = "]"
         THEN [ok |-> TRUE, val |-> List(<<>>), next |-> JsonSkip(s, i + 1) + 1]
         ELSE JsonElements(s, i + 1, <<>>)
    ELSE IF s[i] = "{"
    THEN IF JsonSkip(s, i + 1) <= Len(s) /\ s[JsonSkip(s, i + 1)] = "}"
         THEN [ok |-> TRUE, val |-> Dict(<<>>), next |-> JsonSkip(s, i + 1) + 1]
         ELSE JsonMembers(s, i + 1, Dict(<<>>))
    ELSE JsonFail

\* The elements of an array from i on, acc the ones before.
JsonElements(s, i, acc) ==
    LET r == JsonValue(s, JsonSkip(s, i))
        j == JsonSkip(s, r.next)
    IN  IF ~r.ok \/ j > Len(s) THEN JsonFail
        ELSE IF s[j] = "," THEN JsonElements(s, j + 1, Append(acc, r.val))
        ELSE IF s[j] = "]"
        THEN [ok |-> TRUE, val |-> List(Append(acc, r.val)), next |-> j + 1]
        ELSE JsonFail

\* The members of an object from i on, acc the dict so far: a repeated key
\* keeps its last value.
JsonMembers(s, i, acc) ==
    LET k == JsonString(s, JsonSkip(s, i))
        c == JsonSkip(s, k.next)
        r == JsonValue(s, JsonSkip(s, c + 1))
        j == JsonSkip(s, r.next)
    IN  IF ~k.ok \/ c > Len(s) \/ s[c] # ":" THEN JsonFail
        ELSE IF ~r.ok \/ j > Len(s) THEN JsonFail
        ELSE IF s[j] = "," THEN JsonMembers(s, j + 1, DictSet(acc, k.val.v, r.val))
        ELSE IF s[j] = "}"
        THEN [ok |-> TRUE, val |-> DictSet(acc, k.val.v, r.val), next |-> j + 1]
        ELSE JsonFail

\* json.loads(s): [ok, val]; not ok is the ValueError it raises.
json_loads(s) ==
    LET r == JsonValue(s, JsonSkip(s, 1))
    IN  IF r.ok /\ JsonSkip(s, r.next) > Len(s)
        THEN [ok |-> TRUE, val |-> r.val]
        ELSE [ok |-> FALSE, val |-> None]

\* ------------------------------------ detect_and_normalize_names, the parse

\* The dict of line 168.
AllNull == Dict(<< <<K_database, None>>, <<K_table, None>>, <<K_column, None>> >>)

\* response[json_start:json_end] of line 165, parsed: from the first "{" to
\* the last "}"; without one of them index or rindex raises.
ParseBraces(response) ==
    LET opens  == {i \in 1..Len(response) : response[i] = "{"}
        closes == {i \in 1..Len(response) : response[i] = "}"}
    IN  IF opens = {} \/ closes = {} THEN [ok |-> FALSE, val |-> None]
        ELSE json_loads(SubSeq(response, Min(opens), Max(closes)))

\* The except branch of line 166 is taken.
DetectionParseFails(response) ==
    ~json_loads(response).ok /\ ~ParseBraces(response).ok

\* Lines 158-170: the value detect_and_normalize_names returns for a response.
ParseDetection(response) ==
    IF json_loads(response).ok THEN json_loads(response).val
    ELSE IF ParseBraces(response).ok THEN ParseBraces(response).val
    ELSE AllNull

\* ------------------------------------------------- what the collaborators return

\* Sequences over S of length at most n without a repeated element.
DistinctSeqsUpTo(S, n) ==
    {q \in SeqsUpTo(S, n) : \A i, j \in 1..Len(q) : i # j => q[i] # q[j]}

D_Task == <<"T", "a", "s", "k">>

D_PO == <<"P", "O">>

\* The databases a server can hold beside the default one.
DbNames == {D_Task, D_PO}

\* SHOW DATABASES: some of the databases, in any order, none of them twice.
DbLists ==
    {[i \in 1..Len(q) |-> Str(q[i])] :
        q \in DistinctSeqsUpTo(DbNames, Cardinality(DbNames))}

\* get_all_tables_in_db: the tables of a database.
TableLists == {<<S_Invoice_Data>>}

\* The characters of the column names.
NameChars == {"a", "A"}

\* The names an "Unknown column" error can carry.
ErrNames == SeqsUpTo(NameChars, MaxNameLen) \ {<<>>}

\* The column names of the table, and get_table_schema's lists of them (a
\* table has no column twice).
SchemaNames ==
    {<<"a">>, <<"b">>, <<"a", "a">>, <<"a", "b">>, <<"b", "a">>, <<"b", "b">>}

ColumnLists == DistinctSeqsUpTo(SchemaNames, MaxCols)

\* str(e) of a failed gateway or schema call.
E_timeout == <<"t", "i", "m", "e", "o", "u", "t">>

\* str(e) of a failed execution: an error that names no column (one of them
\* with the marker in lower case), and the unknown-column error for each name.
E_syntax == <<"s", "y", "n", "t", "a", "x">>

E_lower_marker ==
    <<"u", "n", "k", "n", "o", "w", "n", " ", "c", "o", "l", "u", "m", "n",
      " ", "'", "a", "'", " ", "i", "n">>

UnknownColumnError(name) ==
    UnknownColumnOpen \o name \o UnknownColumnClose
    \o <<" ", "'", "f", "i", "e", "l", "d", " ", "l", "i", "s", "t", "'">>

ExecErrors ==
    {E_syntax, E_lower_marker, UnknownColumnOpen \o UnknownColumnClose}
    \cup {UnknownColumnError(n) : n \in ErrNames}

\* What a successful execution returns.
ExecResults ==
    {[columns |-> <<<<"a">>>>, rows |-> <<>>],
     [columns |-> <<<<"a">>>>, rows |-> << <<Num(<<"7">>)>> >>]}

\* The gateway's answers to the SQL prompt: a statement over the name
\* characters and the blank, bare, after prose and a keyword, or with a fence.
SqlChars == NameChars \cup {" "}

SqlBodies == SeqsUpTo(SqlChars, MaxSqlLen)

T_ok_select == <<"o", "k", " ", "s", "e", "l", "e", "c", "t", " ">>

\* An answer with two keywords, neither at its start, in mixed letter case.
T_with_select ==
    <<"a", " ", "W", "i", "t", "h", " ", "S", "e", "L", "e", "C", "t", " ", "A">>

\* A markdown fence.
Fence == <<Backtick, Backtick, Backtick>>

\* Answers with the SQL in a fenced block: tagged sql, and untagged in prose.
FencedResponses ==
    {Fence \o <<"s", "q", "l", "\n", "s", "e", "l", "e", "c", "t", " ", "a", "\n">>
        \o Fence,
     <<"o", "k", " ">> \o Fence \o <<"\n", "A", "\n">> \o Fence \o <<" ", "o", "k">>}

SqlResponses ==
    SqlBodies
    \cup {T_ok_select \o b : b \in {<<"a">>, <<"A", "a">>}}
    \cup {FencePattern \o b \o FencePattern : b \in {<<>>, <<"a">>}}
    \cup FencedResponses
    \cup {T_with_select}

\* The gateway's answers to the detection prompt.
Quote(s) == <<"\"">> \o s \o <<"\"">>

T_null == <<"n", "u", "l", "l">>

Member(key, value) == Quote(key) \o <<":", " ">> \o value

RECURSIVE JoinMembers(_)
JoinMembers(ms) ==
    IF ms = <<>> THEN <<>>
    ELSE IF Len(ms) = 1 THEN ms[1]
    ELSE ms[1] \o <<",", " ">> \o JoinMembers(Tail(ms))

Object(ms) == <<"{">> \o JoinMembers(ms) \o <<"}">>

DbValueTexts == {Quote(D_Task), Quote(D_PO), <<"7">>}

ObjectResponses ==
    {Object(<<Member(K_database, v)>>) : v \in DbValueTexts}
    \cup {Object(<<>>),
          Object(<<Member(K_database, Quote(D_PO)),
                   Member(K_table, Quote(<<"t">>)),
                   Member(K_column, Quote(<<"a">>))>>)}

DetectResponses ==
    ObjectResponses
    \cup {<<"o", "k", " ">> \o o \o <<" ", "o", "k">> : o \in ObjectResponses}
    \cup {<<"7">>, T_null, Quote(D_Task), <<"[", "]">>, <<"[", "7", "]">>}
    \cup {<<"o", "k">>, <<"}", " ", "{">>, <<"{", "o", "k", "}">>, <<"{">>}

\* ------------------------------------------------------------------- state

VARIABLES
    pc,             \* where the turn is
    available_dbs,  \* handle_user_query: the list of line 482
    db_tables,      \* detect_and_normalize_names: the tables fetched so far
    detected,       \* handle_user_query: the value of line 485
    db_name,        \* handle_user_query
    table_name,     \* handle_user_query
    column_name,    \* handle_user_query
    prompt,         \* build_full_sql_query: what the SQL prompt is built from
    response,       \* build_full_sql_query: the text of line 399, at its return
    sql_query,      \* handle_user_query: the generated SQL
    error_msg,      \* handle_user_query: str(exec_err)
    fixed_sql,      \* handle_user_query: the value of line 521
    second_err,     \* handle_user_query: str(second_err)
    columns,        \* fix_sql_query_column: the list of line 452, kept
    outcome,        \* the dict handle_user_query returns
    raised,         \* the exception that left handle_user_query
    calls,          \* the collaborator calls of the turn, in order
    log             \* the logging calls of the last step

vars ==
    <<pc, available_dbs, db_tables, detected, db_name, table_name, column_name,
      prompt, response, sql_query, error_msg, fixed_sql, second_err, columns,
      outcome, raised, calls, log>>

\* A local that is not assigned yet.
Unset == [t |-> "unset", v |-> <<>>]

\* No dict returned yet; a returned dict has the keys of its field keys.
NoOutcome ==
    [keys |-> {}, error |-> <<>>, sql |-> Unset, result |-> Unset,
     corrected |-> FALSE, original_sql |-> Unset,
     database |-> Unset, table |-> Unset, column |-> Unset]

NoException == [type |-> "none", line |-> 0]

\* A collaborator call: the line of the call and its arguments.
Call(fn, line, a, b) == [fn |-> fn, line |-> line, a |-> a, b |-> b]

\* A logging call: its level and its line.
Logged(level, line) == [level |-> level, line |-> line]

\* WatsonxClient.generate_text: the generated text, stripped.
generate_text(raw) == Strip(raw)

Init ==
    /\ pc = "fetch_all_databases"
    /\ available_dbs = <<>>
    /\ db_tables = <<>>
    /\ detected = Unset
    /\ db_name = Unset
    /\ table_name = Unset
    /\ column_name = Unset
    /\ prompt = Unset
    /\ response = Unset
    /\ sql_query = Unset
    /\ error_msg = Unset
    /\ fixed_sql = Unset
    /\ second_err = Unset
    /\ columns = Unset
    /\ outcome = NoOutcome
    /\ raised = NoException
    /\ calls = <<>>
    /\ log = <<>>

\* ------------------------------------------------------------------ actions

\* fetch_all_databases (line 482): the rows of SHOW DATABASES, or the default
\* database when the query raises or returns no "rows".
fetch_all_databases ==
    /\ pc = "fetch_all_databases"
    /\ \/ /\ available_dbs' = <<MYSQL_DATABASE>>
          /\ log' = <<Logged("error", 42)>>
       \/ /\ available_dbs' = <<MYSQL_DATABASE>>
          /\ log' = <<>>
       \/ /\ available_dbs' \in DbLists
          /\ log' = <<>>
    /\ calls' = Append(calls, Call("mysql_query", 37, None, None))
    /\ pc' = "get_all_tables_in_db"
    /\ UNCHANGED <<response, columns, db_tables, detected, db_name,
                   table_name, column_name, prompt, sql_query, error_msg,
                   fixed_sql, second_err, outcome, raised>>

\* detect_and_normalize_names, one round of the loop of lines 60-66: the
\* tables of the next database, or [] when the call raises.
get_all_tables_in_db ==
    /\ pc = "get_all_tables_in_db"
    /\ Len(db_tables) < Len(available_dbs)
    /\ \/ /\ db_tables' = Append(db_tables, <<>>)
          /\ log' = <<Logged("warning", 65)>>
       \/ /\ \E tables \in TableLists : db_tables' = Append(db_tables, tables)
          /\ log' = <<>>
    /\ calls' = Append(calls, Call("get_all_tables_in_db", 62,
                                   available_dbs[Len(db_tables) + 1], None))
    /\ UNCHANGED <<response, columns, pc, available_dbs, detected, db_name,
                   table_name, column_name, prompt, sql_query, error_msg,
                   fixed_sql, second_err, outcome, raised>>

\* detect_and_normalize_names after the loop (lines 68-170): the gateway is
\* asked and its answer parsed; an exception of the gateway is not caught
\* here nor at line 485, and leaves handle_user_query.
detect_and_normalize_names ==
    /\ pc = "get_all_tables_in_db"
    /\ Len(db_tables) = Len(available_dbs)
    /\ calls' = Append(calls, Call("generate_text", 152, None, None))
    /\ db_tables' = <<>>
    /\ \/ /\ pc' = "raised"
          /\ raised' = [type |-> "gateway", line |-> 152]
          /\ log' = <<>>
          /\ UNCHANGED detected
       \/ \E raw \in DetectResponses :
             /\ detected' = ParseDetection(generate_text(raw))
             /\ log' = <<Logged("info", 154)>>
                       \o IF DetectionParseFails(generate_text(raw))
                          THEN <<Logged("error", 167)>> ELSE <<>>
             /\ pc' = "validate"
             /\ UNCHANGED raised
    /\ UNCHANGED <<response, columns, available_dbs, db_name, table_name,
                   column_name, prompt, sql_query, error_msg, fixed_sql,
                   second_err, outcome>>

\* A slip: the detected database is used without the membership test.
ValidatedDbUnchecked(db, dbs) == db

\* Lines 492-494: a database outside available_dbs gives way to the default.
ValidatedDb(db, dbs) == IF InList(db, dbs) THEN db ELSE MYSQL_DATABASE

\* handle_user_query, lines 486-496: the names of the turn. A detected value
\* without a get method (anything but a dict) raises AttributeError at line
\* 486, which nothing catches.
validate_detection ==
    /\ pc = "validate"
    /\ IF detected.t # "dict"
       THEN /\ pc' = "raised"
            /\ raised' = [type |-> "AttributeError", line |-> 486]
            /\ log' = <<>>
            /\ UNCHANGED <<db_name, table_name, column_name>>
       ELSE LET db == IF Truthy(DictGet(detected, K_database))
                      THEN DictGet(detected, K_database) ELSE MYSQL_DATABASE
                known == InList(db, available_dbs)
            IN  /\ db_name' = ValidatedDb(db, available_dbs)
                /\ table_name' = IF Truthy(DictGet(detected, K_table))
                                 THEN DictGet(detected, K_table)
                                 ELSE Str(S_Invoice_Data)
                /\ column_name' = DictGet(detected, K_column)
                /\ log' = (IF known THEN <<>> ELSE <<Logged("warning", 493)>>)
                          \o <<Logged("info", 496)>>
                /\ pc' = "build_full_sql_query"
                /\ UNCHANGED raised
    /\ UNCHANGED <<response, columns, available_dbs, db_tables, detected,
                   prompt, sql_query, error_msg, fixed_sql, second_err,
                   outcome, calls>>

\* A slip: the failed generation reported with an SQL text attached.
GenerationFailedWithSql(msg) ==
    [NoOutcome EXCEPT !.keys = {"error", "sql"},
                      !.error = P_AIGenerationFailed \o msg, !.sql = None]

\* The dict of line 503.
GenerationFailed(msg) ==
    [NoOutcome EXCEPT !.keys = {"error"}, !.error = P_AIGenerationFailed \o msg]

\* build_full_sql_query up to the gateway call (lines 180-397): the columns
\* are fetched when both names are set, and the prompt is built. The call is
\* inside the try of line 499: an exception of get_table_schema ends the
\* turn with the dict of line 503.
build_sql_prompt ==
    /\ pc = "build_full_sql_query"
    /\ IF Truthy(db_name) /\ Truthy(table_name)
       THEN /\ calls' = Append(calls,
                               Call("get_table_schema", 183, db_name, table_name))
            /\ \/ /\ outcome' = GenerationFailed(E_timeout)
                  /\ log' = <<Logged("error", 502)>>
                  /\ pc' = "done"
                  /\ UNCHANGED prompt
               \/ \E cols \in ColumnLists :
                     /\ prompt' = [db_name |-> db_name, table_name |-> table_name,
                                   columns |-> cols, column_name |-> column_name]
                     /\ log' = <<>>
                     /\ pc' = "generate_sql"
                     /\ UNCHANGED outcome
       ELSE /\ prompt' = [db_name |-> db_name, table_name |-> table_name,
                          columns |-> <<>>, column_name |-> column_name]
            /\ log' = <<>>
            /\ pc' = "generate_sql"
            /\ UNCHANGED <<outcome, calls>>
    /\ UNCHANGED <<response, columns, available_dbs, db_tables, detected,
                   db_name, table_name, column_name, sql_query, error_msg,
                   fixed_sql, second_err, raised>>

\* build_full_sql_query from the gateway call on (lines 399-405), inside the
\* try of line 499: the SQL is extracted from the answer, or the turn ends
\* with the dict of line 503.
generate_sql ==
    /\ pc = "generate_sql"
    /\ calls' = Append(calls, Call("generate_text", 399,
                                   prompt.db_name, prompt.table_name))
    /\ prompt' = Unset
    /\ \/ /\ outcome' = GenerationFailed(E_timeout)
          /\ log' = <<Logged("error", 502)>>
          /\ pc' = "done"
          /\ UNCHANGED <<response, sql_query>>
       \/ \E raw \in SqlResponses :
             /\ response' = Str(generate_text(raw))
             /\ sql_query' = Str(extract_sql_from_llm_response(generate_text(raw)))
             /\ log' = <<Logged("info", 400)>>
             /\ pc' = "execute"
             /\ UNCHANGED outcome
    /\ UNCHANGED <<columns, available_dbs, db_tables, detected, db_name, table_name,
                   column_name, error_msg, fixed_sql, second_err, raised>>

\* A slip: the success reports the detected database, not the validated one.
SuccessDetectedDatabase(result) ==
    [NoOutcome EXCEPT
        !.keys = {"sql", "result", "corrected", "database", "table", "column"},
        !.sql = sql_query, !.result = result, !.corrected = FALSE,
        !.database = DictGet(detected, K_database),
        !.table = table_name, !.column = column_name]

\* The dict of lines 508-515.
Success(result) ==
    [NoOutcome EXCEPT
        !.keys = {"sql", "result", "corrected", "database", "table", "column"},
        !.sql = sql_query, !.result = result, !.corrected = FALSE,
        !.database = db_name, !.table = table_name, !.column = column_name]

\* A slip: the two SQL texts in each other's place.
CorrectedSuccessSwapped(result) ==
    [NoOutcome EXCEPT
        !.keys = {"sql", "result", "corrected", "original_sql",
                  "database", "table", "column"},
        !.sql = sql_query, !.result = result, !.corrected = TRUE,
        !.original_sql = fixed_sql,
        !.database = db_name, !.table = table_name, !.column = column_name]

\* The dict of lines 526-534.
CorrectedSuccess(result) ==
    [NoOutcome EXCEPT
        !.keys = {"sql", "result", "corrected", "original_sql",
                  "database", "table", "column"},
        !.sql = fixed_sql, !.result = result, !.corrected = TRUE,
        !.original_sql = sql_query,
        !.database = db_name, !.table = table_name, !.column = column_name]

\* The dict of line 542.
ExecutionError(msg, sql) ==
    [NoOutcome EXCEPT !.keys = {"error", "sql"},
                      !.error = P_QueryExecutionError \o msg, !.sql = sql]

\* A slip: the failed correction reported with the SQL of the first attempt.
FailedAfterFixOriginalSql(msg, sql) ==
    [NoOutcome EXCEPT !.keys = {"error", "sql"},
                      !.error = P_ExecutionFailedAfterFix \o msg,
                      !.sql = sql_query]

\* The dict of line 537.
FailedAfterFix(msg, sql) ==
    [NoOutcome EXCEPT !.keys = {"error", "sql"},
                      !.error = P_ExecutionFailedAfterFix \o msg, !.sql = sql]

\* handle_user_query, lines 506-518: the first execution.
execute_query ==
    /\ pc = "execute"
    /\ response' = Unset
    /\ calls' = Append(calls, Call("mysql_query", 507, sql_query, db_name))
    /\ \/ \E result \in ExecResults :
             /\ outcome' = Success(result)
             /\ log' = <<>>
             /\ pc' = "done"
             /\ UNCHANGED error_msg
       \/ \E msg \in ExecErrors :
             /\ error_msg' = Str(msg)
             /\ log' = <<Logged("warning", 518)>>
             /\ pc' = "fix"
             /\ UNCHANGED outcome
    /\ UNCHANGED <<columns, available_dbs, db_tables, detected, db_name, table_name,
                   column_name, prompt, sql_query, fixed_sql, second_err,
                   raised>>

\* A slip: line 522 without its comparison of the two SQL texts.
ShouldRetryAnyFix(fixed, sql) == Truthy(fixed)

\* A slip: the comparison of line 522 inverted.
ShouldRetryInverted(fixed, sql) == Truthy(fixed) /\ fixed = sql

\* The test of line 522.
ShouldRetry(fixed, sql) == Truthy(fixed) /\ fixed # sql

\* A slip: a failed correction is corrected again.
AfterSecondErrorRetries == "fix"

\* Where the turn goes when the corrected SQL fails too (line 537 returns).
AfterSecondError == "done"

\* handle_user_query, lines 521-522 and 539-542, with fix_sql_query_column:
\* the columns are fetched only when the error names a column, and an
\* exception of get_table_schema there is outside every try.
fix_sql_query ==
    /\ pc = "fix"
    /\ IF ~Truthy(extract_column_from_sql_error(error_msg.v))
       THEN /\ fixed_sql' = None
            /\ outcome' = ExecutionError(error_msg.v, sql_query)
            /\ calls' = Append(calls, Call("fix_sql_query_column", 521,
                                           sql_query, error_msg))
            /\ log' = <<>>
            /\ pc' = "done"
            /\ UNCHANGED <<columns, raised>>
       ELSE /\ calls' = calls
                        \o <<Call("fix_sql_query_column", 521, sql_query, error_msg),
                             Call("get_table_schema", 452, db_name, table_name)>>
            /\ \/ /\ pc' = "raised"
                  /\ raised' = [type |-> "schema", line |-> 452]
                  /\ log' = <<>>
                  /\ UNCHANGED <<columns, fixed_sql, outcome>>
               \/ \E cols \in ColumnLists :
                   \E fixed \in {fix_sql_query_column(sql_query.v, error_msg.v,
                                                      cols)} :
                         /\ columns' = List(cols)
                         /\ fixed_sql' = fixed
                         /\ UNCHANGED raised
                         /\ IF ShouldRetry(fixed, sql_query)
                            THEN /\ log' = <<Logged("info", 523)>>
                                 /\ pc' = "reexecute"
                                 /\ UNCHANGED outcome
                            ELSE /\ outcome' =
                                        ExecutionError(error_msg.v, sql_query)
                                 /\ log' = <<>>
                                 /\ pc' = "done"
    /\ UNCHANGED <<response, available_dbs, db_tables, detected, db_name,
                   table_name, column_name, prompt, sql_query, error_msg,
                   second_err>>

\* handle_user_query, lines 524-537: the execution of the corrected SQL.
reexecute_query ==
    /\ pc = "reexecute"
    /\ calls' = Append(calls, Call("mysql_query", 525, fixed_sql, db_name))
    /\ \/ \E result \in ExecResults :
             /\ outcome' = CorrectedSuccess(result)
             /\ log' = <<>>
             /\ pc' = "done"
             /\ UNCHANGED second_err
       \/ \E msg \in ExecErrors :
             /\ second_err' = Str(msg)
             /\ outcome' = FailedAfterFix(msg, fixed_sql)
             /\ log' = <<Logged("error", 536)>>
             /\ pc' = AfterSecondError
    /\ UNCHANGED <<response, columns, available_dbs, db_tables, detected,
                   db_name, table_name, column_name, prompt, sql_query,
                   error_msg, fixed_sql, raised>>

Next ==
    \/ fetch_all_databases
    \/ get_all_tables_in_db
    \/ detect_and_normalize_names
    \/ validate_detection
    \/ build_sql_prompt
    \/ generate_sql
    \/ execute_query
    \/ fix_sql_query
    \/ reexecute_query

Spec == Init /\ [][Next]_vars

\* ------------------------------------------------------------------ claims

\* The positions in calls of the calls made at a line of the source.
CallsAt(line) == {i \in 1..Len(calls) : calls[i].line = line}

\* The first execution has failed.
FirstFailed == error_msg # Unset

\* msg holds "Unknown column '<name>' in" with a name of at least one
\* character on one line.
NamesUnknownColumn(msg) ==
    \E i \in 1..Len(msg) : \E j \in (i + Len(UnknownColumnOpen))..Len(msg) :
        /\ MatchAt(msg, i, UnknownColumnOpen)
        /\ MatchAt(msg, j + 1, UnknownColumnClose)
        /\ \A k \in (i + Len(UnknownColumnOpen))..j : msg[k] # "\n"

\* The column the first error names.
InvalidCol == extract_column_from_sql_error(error_msg.v).v

\* Column c is at least 0.6 similar to the name the first error carries.
Similar(c) ==
    10 * RatioMatches(c, InvalidCol) >= 3 * (Len(c) + Len(InvalidCol))

\* The repair has fetched the columns and one of them clears the cutoff.
RepairHasMatch ==
    /\ FirstFailed
    /\ NamesUnknownColumn(error_msg.v)
    /\ columns # Unset
    /\ \E i \in 1..Len(columns.v) : Similar(columns.v[i])

\* The repair has fetched the columns and none of them clears the cutoff.
RepairHasNoMatch ==
    /\ FirstFailed
    /\ NamesUnknownColumn(error_msg.v)
    /\ columns # Unset
    /\ \A i \in 1..Len(columns.v) : ~Similar(columns.v[i])

\* The turn has ended with the dict of a success.
Succeeded == pc = "done" /\ "result" \in outcome.keys

\* The turn has ended with an error dict.
Failed == pc = "done" /\ "error" \in outcome.keys

\* C1: in a turn the generated SQL is executed at most twice (once at line
\* 507, once at line 525), fix_sql_query_column is invoked at most once, and
\* the re-execution is the last thing the turn does: whatever its result, the
\* turn is over.
C1_SingleCorrection ==
    /\ Cardinality(CallsAt(507)) <= 1
    /\ Cardinality(CallsAt(525)) <= 1
    /\ Cardinality(CallsAt(521)) <= 1
    /\ \A i \in CallsAt(525) : i = Len(calls) /\ pc = "done"

\* The corrected SQL failed with another unknown-column error, and the turn
\* is over.
C1_Witness ==
    /\ pc = "done"
    /\ CallsAt(525) # {}
    /\ second_err # Unset
    /\ NamesUnknownColumn(second_err.v)

\* C2 as claimed: when the first error names an unknown column and a column
\* of the table clears the cutoff, the turn ends with the corrected SQL
\* executed exactly once, in a corrected success or an "after fix" failure,
\* never in the error of the first execution.
C2_Original ==
    (pc = "done" /\ RepairHasMatch) =>
        /\ Cardinality(CallsAt(525)) = 1
        /\ \/ Succeeded /\ outcome.corrected
           \/ Failed /\ outcome.error = P_ExecutionFailedAfterFix \o second_err.v

\* C2 as amended: when moreover the substitution changes the SQL text, the
\* matched column is in the corrected SQL, which is executed exactly once, and
\* the turn ends in a corrected success or an "after fix" failure.
C2_RepairThenOneReexecution ==
    (RepairHasMatch /\ fixed_sql # sql_query) =>
        /\ fixed_sql.t = "str"
        /\ Contains(fixed_sql.v, get_close_matches(InvalidCol, columns.v)[1])
        /\ pc \in {"reexecute", "done"}
        /\ pc = "reexecute" => CallsAt(525) = {}
        /\ pc = "done" =>
              /\ Cardinality(CallsAt(525)) = 1
              /\ \A i \in CallsAt(525) : calls[i].a = fixed_sql
              /\ \/ Succeeded /\ outcome.corrected
                 \/ Failed /\ second_err # Unset
                    /\ outcome.error = P_ExecutionFailedAfterFix \o second_err.v

\* A column was matched in any letter case in the SQL and replaced, and the
\* corrected SQL succeeded.
C2_Witness ==
    /\ Succeeded
    /\ outcome.corrected
    /\ RepairHasMatch
    /\ ~Contains(sql_query.v, InvalidCol)

\* C3: a success dict has corrected = False exactly when the first execution
\* succeeded, with the generated SQL as sql and no original_sql key; it has
\* corrected = True exactly when the first execution failed and the second
\* succeeded, with the corrected SQL as sql and the generated SQL as
\* original_sql.
C3_SuccessEnvelope ==
    Succeeded =>
        /\ outcome.corrected <=> FirstFailed
        /\ ~outcome.corrected =>
              /\ outcome.sql = sql_query
              /\ "original_sql" \notin outcome.keys
              /\ CallsAt(525) = {}
              /\ \A i \in CallsAt(507) : calls[i].a = outcome.sql
        /\ outcome.corrected =>
              /\ second_err = Unset
              /\ "original_sql" \in outcome.keys
              /\ \A i \in CallsAt(525) : calls[i].a = outcome.sql
              /\ \A i \in CallsAt(507) : calls[i].a = outcome.original_sql
              /\ CallsAt(525) # {}
              /\ outcome.sql # outcome.original_sql

\* A corrected success.
C3_Witness ==
    /\ Succeeded
    /\ outcome.corrected
    /\ outcome.sql = fixed_sql
    /\ outcome.original_sql = sql_query

\* C4: when the first error does not hold the unknown-column pattern, the
\* turn ends with an error dict that carries that error and the generated
\* SQL, the columns are not fetched and nothing is executed again.
C4_GenericErrorIsTerminal ==
    (FirstFailed /\ ~NamesUnknownColumn(error_msg.v) /\ pc # "fix") =>
        /\ pc = "done"
        /\ outcome.keys = {"error", "sql"}
        /\ outcome.error = P_QueryExecutionError \o error_msg.v
        /\ outcome.sql = sql_query
        /\ CallsAt(452) = {}
        /\ CallsAt(525) = {}

\* The error with the marker in lower case ended the turn.
C4_Witness ==
    /\ pc = "done"
    /\ error_msg = Str(E_lower_marker)
    /\ "error" \in outcome.keys

\* C5: when the first error names an unknown column and no column of the
\* fetched list clears the cutoff (the empty list too), the turn ends with an
\* error dict that carries the first error and the generated SQL, and nothing
\* is executed again.
C5_NoMatchIsTerminal ==
    RepairHasNoMatch =>
        /\ pc = "done"
        /\ outcome.keys = {"error", "sql"}
        /\ outcome.error = P_QueryExecutionError \o error_msg.v
        /\ outcome.sql = sql_query
        /\ CallsAt(525) = {}

\* A list that is not empty and holds no close column, with the unknown
\* column in the SQL.
C5_Witness ==
    /\ pc = "done"
    /\ RepairHasNoMatch
    /\ columns.v # <<>>
    /\ Contains(sql_query.v, InvalidCol)

\* C6: when the corrected SQL fails, the turn ends with an error dict whose
\* sql is the corrected SQL, not the generated one, and whose message carries
\* the second error under a prefix of its own, not the first error.
C6_AfterFixFailure ==
    second_err # Unset =>
        /\ pc = "done"
        /\ outcome.keys = {"error", "sql"}
        /\ outcome.sql = fixed_sql
        /\ outcome.sql # sql_query
        /\ \A i \in CallsAt(525) : calls[i].a = outcome.sql
        /\ outcome.error = P_ExecutionFailedAfterFix \o second_err.v
        /\ ~MatchAt(outcome.error, 1, P_QueryExecutionError)

\* The corrected SQL failed with an error other than the first one.
C6_Witness ==
    /\ pc = "done"
    /\ second_err # Unset
    /\ second_err # error_msg

\* The gateway call for the SQL was the last call of the turn, and gave no SQL.
SqlGenerationFailed ==
    /\ pc = "done"
    /\ sql_query = Unset
    /\ calls # <<>>
    /\ calls[Len(calls)].line = 399

\* C7: when the gateway fails during SQL generation, the turn ends with an
\* error dict "AI generation failed: ..." without an sql key, no SQL is
\* executed, and the gateway was asked for the SQL exactly once.
C7_GenerationFailure ==
    SqlGenerationFailed =>
        /\ outcome.keys = {"error"}
        /\ MatchAt(outcome.error, 1, P_AIGenerationFailed)
        /\ CallsAt(507) = {}
        /\ CallsAt(525) = {}
        /\ Cardinality(CallsAt(399)) = 1

\* The gateway failed on the SQL prompt after a detection that named a table.
C7_Witness ==
    /\ SqlGenerationFailed
    /\ table_name # Str(S_Invoice_Data)

\* C8 as claimed: a failure of a gateway call never leaves handle_user_query
\* as an exception; the turn ends with a dict.
C8_GatewayFailureIsMapped ==
    raised.type # "gateway"

\* C9 as claimed: a failure of a schema call never leaves handle_user_query
\* as an exception and never ends the turn with an error dict.
C9_SchemaFailureIsAbsorbed ==
    /\ raised.type # "schema"
    /\ ~(Failed /\ calls[Len(calls)].line = 183)

\* C10 as claimed: whatever the gateway answers to the detection prompt, the
\* detected value is a dict and line 486 does not raise.
C10_DetectionNeverRaises ==
    /\ detected # Unset => detected.t = "dict"
    /\ raised.type # "AttributeError"

\* The database the detection named (None when it named none).
DetectedDb == DictGet(detected, K_database)

\* The validation of lines 486-496 has run.
Validated == detected # Unset /\ detected.t = "dict" /\ pc # "validate"

\* C11: after the validation the database of the turn is the detected one if
\* it is not null and is in the discovered list, and the default database
\* otherwise; the validation raises nothing and ends no turn: the turn goes
\* on to build_full_sql_query, which is called with that database.
C11_ValidatedDatabase ==
    Validated =>
        /\ db_name = IF DetectedDb # None /\ InList(DetectedDb, available_dbs)
                     THEN DetectedDb ELSE MYSQL_DATABASE
        /\ pc = "build_full_sql_query" =>
              outcome = NoOutcome /\ raised = NoException
        /\ pc # "build_full_sql_query" =>
              /\ CallsAt(183) # {}
              /\ \A i \in CallsAt(183) : calls[i].a = db_name

\* A detected database outside the discovered list gave way to the default,
\* and the gateway was asked for the SQL.
C11_Witness ==
    /\ Validated
    /\ DetectedDb = Str(D_PO)
    /\ ~InList(DetectedDb, available_dbs)
    /\ available_dbs # <<>>
    /\ db_name = MYSQL_DATABASE
    /\ CallsAt(399) # {}

\* The positions of text s where a markdown fence starts.
FenceStarts(s) == {i \in 1..Len(s) : MatchAt(s, i, Fence)}

\* Where the content of the first fenced block of s starts: after the opening
\* fence and its tag sql, if it has one.
ContentStart(s) ==
    LET open == Min(FenceStarts(s)) + Len(Fence)
    IN  IF MatchAtI(s, open, <<"s", "q", "l">>) THEN open + 3 ELSE open

\* Text s holds a fenced block: an opening fence and, after it, a closing one.
HasFencedBlock(s) ==
    /\ FenceStarts(s) # {}
    /\ \E k \in FenceStarts(s) : k >= ContentStart(s)

\* What is between the fences of the first fenced block of s.
FencedContent(s) ==
    SubSeq(s, ContentStart(s),
           Min({k \in FenceStarts(s) : k >= ContentStart(s)}) - 1)

\* build_full_sql_query has just returned the SQL it took from response.
Extracted == pc = "execute" /\ response # Unset

\* C12 as claimed: from a response that holds a fenced block, the SQL taken
\* is what is between the fences, stripped: no fence and no prose.
C12_FencedContentIsExtracted ==
    (Extracted /\ HasFencedBlock(response.v)) =>
        sql_query.v = Strip(FencedContent(response.v))

\* The databases the turn has used so far: named in the SQL prompt (lines 183
\* and 399), given to the executor (lines 507 and 525), given to the column
\* fetch of the repair (line 452), and reported in a success.
DatabasesUsed ==
    {calls[i].a : i \in CallsAt(183) \cup CallsAt(399) \cup CallsAt(452)}
    \cup {calls[i].b : i \in CallsAt(507) \cup CallsAt(525)}
    \cup (IF "database" \in outcome.keys THEN {outcome.database} ELSE {})

\* C13: every use of a database in a turn is a use of the validated
\* database: the detected one if it is in the discovered list, else the
\* default one.
C13_OneDatabasePerTurn ==
    /\ DatabasesUsed \subseteq {db_name}
    /\ DatabasesUsed # {} =>
          /\ Validated
          /\ db_name = IF DetectedDb # None /\ InList(DetectedDb, available_dbs)
                       THEN DetectedDb ELSE MYSQL_DATABASE

\* A corrected success on a detected database that is not the default: the
\* prompt, both executions, the column fetch and the success name it.
C13_Witness ==
    /\ Succeeded
    /\ outcome.corrected
    /\ outcome.database = Str(D_PO)
    /\ CallsAt(399) # {} /\ CallsAt(507) # {}
    /\ CallsAt(452) # {} /\ CallsAt(525) # {}

\* A keyword of line 422 is at position i of text s, in any letter case.
KeywordAt(s, i) ==
    \E w \in {sql_keywords[k] : k \in 1..Len(sql_keywords)} :
        /\ i + Len(w) - 1 <= Len(s)
        /\ \A k \in 1..Len(w) : Lower(s[i + k - 1]) = Lower(w[k])

\* Text y is text x without its leading and trailing whitespace.
IsTrimOf(y, x) ==
    \E i \in 1..(Len(x) + 1) : \E j \in (i - 1)..Len(x) :
        /\ y = SubSeq(x, i, j)
        /\ \A k \in 1..(i - 1) : x[k] \in Whitespace
        /\ \A k \in (j + 1)..Len(x) : x[k] \in Whitespace
        /\ y # <<>> => y[1] \notin Whitespace /\ y[Len(y)] \notin Whitespace

\* C14: from a response without a fenced block, the SQL taken is the response
\* from its leftmost keyword on, trimmed, when a keyword occurs in it in any
\* letter case, and the whole response, trimmed, when none occurs.
C14_KeywordExtraction ==
    (Extracted /\ ~HasFencedBlock(response.v)) =>
        LET r == response.v
            starts == {i \in 1..Len(r) : KeywordAt(r, i)}
        IN  IF starts # {}
            THEN \E i \in starts :
                    /\ \A j \in starts : i <= j
                    /\ IsTrimOf(sql_query.v, SubSeq(r, i, Len(r)))
            ELSE IsTrimOf(sql_query.v, r)

\* The SQL was taken from the first of two keywords, which was neither in
\* upper case nor at the start of the response.
C14_Witness ==
    /\ Extracted
    /\ response.v = T_with_select
    /\ sql_query.v = SubSeq(T_with_select, 3, Len(T_with_select))

\* Texts x and y are the same but for the case of their letters.
SameButCase(x, y) ==
    /\ Len(x) = Len(y)
    /\ \A k \in 1..Len(x) : Lower(x[k]) = Lower(y[k])

\* C15: the SQL of the second execution is never the SQL of the first one,
\* and a success with corrected = True carries two different SQL texts.
C15_NeverTheSameSqlTwice ==
    /\ \A i \in CallsAt(507) : \A j \in CallsAt(525) : calls[i].a # calls[j].a
    /\ (Succeeded /\ outcome.corrected) => outcome.sql # outcome.original_sql

\* A corrected success whose two SQL texts differ in the case of a letter only.
C15_Witness ==
    /\ Succeeded
    /\ outcome.corrected
    /\ CallsAt(525) # {}
    /\ SameButCase(outcome.sql.v, outcome.original_sql.v)

====
